---- MODULE Spec2Model ----
(***************************************************************************)
(* The request-handling pipeline of aoai_simulated_api/app_builder.py:     *)
(* validate_api_key (the credential gate) and catchall (dispatch, limiter, *)
(* latency emulation, metrics), as a state machine over in-flight requests.*)
(*                                                                         *)
(* Encodings.  A Python Optional is a set with at most one element (None   *)
(* is {}).  A header value is a str, modelled as its sequence of code      *)
(* points.  perf_counter() seconds are fixed-point numbers, TicksPerSecond *)
(* ticks to the second.  The generators, the record/replay handler and the *)
(* limiters are collaborators outside app_builder.py: what they return,    *)
(* annotate or raise is a nondeterministic choice.                         *)
(***************************************************************************)
EXTENDS Integers, Sequences, FiniteSets, TLC

VARIABLES config, clock, req, hist

vars == <<config, clock, req, hist>>

----------------------------------------------------------------------------
(* Python values *)

None == {}
Some(v) == {v}
The(o) == CHOOSE v \in o : TRUE

\* dict.get(key, default) on an optional entry
GetOr(o, default) == IF o = None THEN default ELSE The(o)

\* truthiness of an Optional[str] whose str is a sequence of code points
StrTruthy(o) == o # None /\ The(o) # <<>>

\* truthiness of an Optional[str] whose str is a TLA+ string
NameTruthy(o) == o # None /\ The(o) # ""

\* truthiness of an Optional[int]
IntTruthy(o) == o # None /\ The(o) # 0

IsAscii(s) == \A i \in 1..Len(s) : s[i] < 128

\* secrets.compare_digest on two str: a TypeError unless both are ASCII
compare_digest(a, b) ==
    IF IsAscii(a) /\ IsAscii(b)
    THEN (IF a = b THEN "True" ELSE "False")
    ELSE "TypeError"

----------------------------------------------------------------------------
(* Bounds and input sets *)

\* the clock advances on its own at most this many steps
MaxClockSteps == 2

\* resolution of the modelled perf_counter
TicksPerSecond == 10000

MsPerSecond == 1000

HTTP_401_UNAUTHORIZED == 401

HTTP_500 == 500

SuccessBound == 300

TicksPerMs == TicksPerSecond \div MsPerSecond

\* the milliseconds the clock advances in one step
ClockStepsMs == {50}

Modes == {"generate", "record", "replay"}

\* str values: the configured secret, a wrong key, a key with a non-ASCII code point
Secret == <<115, 51, 99>>
WrongKey == <<115, 51, 120>>
NonAsciiKey == <<115, 233>>
BearerToken == <<66, 32, 120>>

Headers(A, K) == [Authorization : A, api_key : K, ocp_apim_subscription_key : K]

HeadersAll ==
    Headers({None, Some(<<>>), Some(BearerToken), Some(NonAsciiKey)},
            {None, Some(<<>>), Some(Secret), Some(WrongKey), Some(NonAsciiKey)})

HeadersFew ==
    { [Authorization |-> Some(BearerToken), api_key |-> None, ocp_apim_subscription_key |-> None],
      [Authorization |-> None, api_key |-> Some(Secret), ocp_apim_subscription_key |-> None],
      [Authorization |-> None, api_key |-> None, ocp_apim_subscription_key |-> Some(Secret)],
      [Authorization |-> None, api_key |-> Some(WrongKey), ocp_apim_subscription_key |-> None],
      [Authorization |-> None, api_key |-> None, ocp_apim_subscription_key |-> Some(NonAsciiKey)] }

NoHeaders == [Authorization |-> None, api_key |-> None, ocp_apim_subscription_key |-> None]

\* context.values: the four keys catchall reads, each absent or set
NoValues == [limiter |-> None, deployment |-> None, tokens |-> None, duration_ms |-> None]

\* (limiter key, deployment name) pairs a producer annotates
Resources ==
    { <<None, None>>, <<Some("openai"), Some("gpt-4")>>, <<Some("docintelligence"), None>>,
      <<Some("unknown"), Some("gpt-4")>>, <<Some(""), None>> }

ValuesOf(R, T, D) ==
    { [limiter |-> rs[1], deployment |-> rs[2], tokens |-> t, duration_ms |-> d] :
        rs \in R, t \in T, d \in D }

ValuesAll == ValuesOf(Resources, {None, Some(0), Some(7)}, {None, Some(50), Some(500)})

ValuesFew ==
    ValuesOf({<<None, None>>, <<Some("openai"), Some("gpt-4")>>}, {None, Some(7)}, {None, Some(500)})

\* what a producer does: returns a response, returns None, or raises
Outcomes(S, V) ==
    [kind : {"response"}, status : S, values : V]
        \cup [kind : {"none", "raise"}, status : {0}, values : V \cap ValuesFew]

OutcomesAll == Outcomes({200, 299, 300, 404}, ValuesAll)

OutcomesFew == Outcomes({200, 404}, ValuesFew)

\* two requests in flight: a right and a wrong key, two producers' annotations
HeadersConc ==
    { [Authorization |-> None, api_key |-> Some(Secret), ocp_apim_subscription_key |-> None],
      [Authorization |-> None, api_key |-> Some(WrongKey), ocp_apim_subscription_key |-> None] }

ValuesConc ==
    ValuesOf({<<Some("openai"), Some("gpt-4")>>}, {Some(7)}, {Some(500)})
        \cup ValuesOf({<<Some("docintelligence"), None>>}, {Some(0)}, {Some(50)})

OutcomesConc == Outcomes({200}, ValuesConc)

\* what a limiter does: returns None, returns a replacement response, or raises
LimiterResults == {[kind |-> "none", status |-> 0], [kind |-> "replace", status |-> 429],
                   [kind |-> "raise", status |-> 0]}

----------------------------------------------------------------------------
(* The credential gate *)

\* validate_api_key, had it compared the bearer value with the secret
validate_api_key_checked(api_auth_header_key, api_key, ocp_apim_subscription_key) ==
    IF \/ /\ StrTruthy(api_auth_header_key)
          /\ compare_digest(The(api_auth_header_key), config.simulator_api_key) = "True"
       \/ /\ StrTruthy(api_key)
          /\ compare_digest(The(api_key), config.simulator_api_key) = "True"
       \/ /\ StrTruthy(ocp_apim_subscription_key)
          /\ compare_digest(The(ocp_apim_subscription_key), config.simulator_api_key) = "True"
    THEN "True"
    ELSE "HTTPException"

\* validate_api_key, had it logged the warning and raised nothing
validate_api_key_open(api_auth_header_key, api_key, ocp_apim_subscription_key) == "True"

\* validate_api_key: "True", the HTTPException(401), or the TypeError that
\* compare_digest raises and nothing in the dependency catches
validate_api_key(api_auth_header_key, api_key, ocp_apim_subscription_key) ==
    IF StrTruthy(api_auth_header_key) THEN "True"
    ELSE IF StrTruthy(api_key)
            /\ compare_digest(The(api_key), config.simulator_api_key) # "False"
         THEN compare_digest(The(api_key), config.simulator_api_key)
    ELSE IF StrTruthy(ocp_apim_subscription_key)
            /\ compare_digest(The(ocp_apim_subscription_key), config.simulator_api_key) # "False"
         THEN compare_digest(The(ocp_apim_subscription_key), config.simulator_api_key)
    ELSE "HTTPException"

----------------------------------------------------------------------------
(* The pipeline's pure steps *)

\* the limiters dictionary: the names that have a limiter
limiters == {"openai", "docintelligence"}

\* limiter, had every non-empty key been taken for a registered one
limiterAnyKey(values) == NameTruthy(values.limiter)

\* limiters.get(limiter_name) if limiter_name else None: is there a limiter to call
limiter(values) == NameTruthy(values.limiter) /\ The(values.limiter) \in limiters

\* recorded_duration_s, had the milliseconds been taken for seconds
recorded_duration_unconverted(values) == GetOr(values.duration_ms, 0) * TicksPerSecond

\* recorded_duration_ms / 1000, in ticks
recorded_duration_s(values) == (GetOr(values.duration_ms, 0) * TicksPerSecond) \div MsPerSecond

\* IsSuccess, had the comparison been <= 300
IsSuccessInclusive(status_code) == status_code <= SuccessBound

\* response.status_code < 300
IsSuccess(status_code) == status_code < SuccessBound

\* recorded_duration_s - base_duration_s
extra_latency(values, base_duration_s) == recorded_duration_s(values) - base_duration_s

\* the delay passed to asyncio.sleep, None when catchall does not sleep
AddedLatency(status_code, values, base_duration_s) ==
    IF IsSuccess(status_code) /\ extra_latency(values, base_duration_s) > 0
    THEN Some(extra_latency(values, base_duration_s))
    ELSE None

\* MetricsCalls, had the full-latency record call been left out
MetricsCallsWithoutFull(status_code, values) ==
    <<"latency_base">>
        \o (IF IntTruthy(values.tokens)
            THEN <<"tokens_requested">>
                     \o (IF status_code < SuccessBound THEN <<"tokens_used">> ELSE <<>>)
            ELSE <<>>)

\* the histograms catchall records on, in the order of the record calls
MetricsCalls(status_code, values) ==
    <<"latency_base", "latency_full">>
        \o (IF IntTruthy(values.tokens)
            THEN <<"tokens_requested">>
                     \o (IF IsSuccess(status_code) THEN <<"tokens_used">> ELSE <<>>)
            ELSE <<>>)

\* the observation one record call makes for request r
Observation(name, r, status_code, values, base_duration_s, full_duration_s) ==
    IF name = "latency_base"
    THEN [value |-> base_duration_s, status_code |-> Some(status_code),
          deployment |-> values.deployment, by |-> r]
    ELSE IF name = "latency_full"
    THEN [value |-> full_duration_s, status_code |-> Some(status_code),
          deployment |-> values.deployment, by |-> r]
    ELSE [value |-> The(values.tokens), status_code |-> None,
          deployment |-> values.deployment, by |-> r]

\* the routes declared with Depends(validate_api_key)
GatedRoutes == {"catchall", "save-recordings"}

\* CanSave, had it followed the test that creates the record/replay handler
CanSaveWithHandler(simulator_mode) == simulator_mode \in {"record", "replay"}

\* save_recordings: config.simulator_mode == "record"
CanSave(simulator_mode) == simulator_mode = "record"

\* Producer, had replay been served by the generators
ProducerGeneratingOnReplay(simulator_mode) ==
    IF simulator_mode \in {"generate", "replay"} THEN Some("invoke_generators")
    ELSE IF simulator_mode = "record" THEN Some("record_replay_handler")
    ELSE None

\* the collaborator the mode selects
Producer(simulator_mode) ==
    IF simulator_mode = "generate" THEN Some("invoke_generators")
    ELSE IF simulator_mode \in {"record", "replay"} THEN Some("record_replay_handler")
    ELSE None

----------------------------------------------------------------------------
(* State *)

\* a request nobody has sent yet
Fresh ==
    [pc |-> "idle", route |-> "catchall", headers |-> NoHeaders, start_time |-> 0, contexts |-> 0,
     values |-> NoValues, annotated |-> None, invoked |-> <<>>, outcome |-> None, produced |-> None, response |-> None,
     limited |-> <<>>, verdict |-> None, base_duration_s |-> 0, slept |-> None, wake |-> 0,
     result |-> None, fault |-> None, log |-> <<>>]

NoObservations ==
    [latency_base |-> <<>>, latency_full |-> <<>>, tokens_used |-> <<>>, tokens_requested |-> <<>>]

InitWith(ids) ==
    /\ config \in [simulator_mode : Modes, simulator_api_key : {Secret}]
    /\ clock = 0
    /\ req = [r \in ids |-> Fresh]
    /\ hist = NoObservations

Init == InitWith({"r1"})

\* StageAfter, had the limiter stage been skipped
StageAfterSkippingLimit(stage) ==
    CASE stage = "Dispatch" -> "dispatching"
      [] stage = "Response" -> "limited"
      [] stage = "Limit" -> "limited"
      [] stage = "Sleep" -> "sleeping"
      [] stage = "Delay" -> "delayed"
      [] stage = "Record" -> "recorded"
      [] OTHER -> "returned"

\* where catchall stands after each of its stages, in statement order
StageAfter(stage) ==
    CASE stage = "Dispatch" -> "dispatching"
      [] stage = "Response" -> "dispatched"
      [] stage = "Limit" -> "limited"
      [] stage = "Sleep" -> "sleeping"
      [] stage = "Delay" -> "delayed"
      [] stage = "Record" -> "recorded"
      [] OTHER -> "returned"

\* q after stage: its place moved on and the stage logged
Advance(q, stage) == [q EXCEPT !.pc = StageAfter(stage), !.log = Append(@, stage)]

\* a response handed to the caller
Returned(q, status_code, origin) ==
    [q EXCEPT !.pc = "returned", !.log = Append(@, "Return"),
              !.result = Some([status_code |-> status_code, origin |-> origin])]

\* Except, had the handler re-raised
ExceptReraised(q, stage) ==
    [q EXCEPT !.pc = "returned", !.log = Append(@, "Return"), !.fault = Some(stage),
              !.result = Some([status_code |-> HTTP_500, origin |-> "unhandled"])]

\* Except, had the failure been recorded without a response being returned
ExceptPending(q, stage) == [q EXCEPT !.pc = "faulted", !.fault = Some(stage)]

\* except Exception: log it and return Response(status_code=500)
Except(q, stage) == Returned([q EXCEPT !.fault = Some(stage)], HTTP_500, "except")

\* NoResponse, had it answered 404 Not Found
NoResponseNotFound(q) == Returned(q, 404, "no-response")

\* if not response: return Response(status_code=500)
NoResponse(q) == Returned(q, HTTP_500, "no-response")

\* ApplyLimit, had the limiter's replacement been dropped
ApplyLimitIgnored(response, l) == response

\* if limit_response: response = limit_response
ApplyLimit(response, l) ==
    IF l.kind = "replace"
    THEN Some([status_code |-> l.status, origin |-> "limiter"])
    ELSE response

----------------------------------------------------------------------------
(* Actions *)

Max(a, b) == IF a >= b THEN a ELSE b

\* StatusOf, had the status been the one the producer returned
StatusOfProduced(q) == The(q.produced)

StatusOf(q) == The(q.response).status_code

\* ContextOf, had the Context been one object of the application
ContextOfShared(r) == "r1"

\* the request whose record holds the Context that r's handler uses: the
\* RequestContext is a local of each catchall call
ContextOf(r) == r

\* context.values, as r's handler reads it
Values(r) == req[ContextOf(r)].values

\* a request reaches the catch-all route with its three credential headers
Arrive(r, H) ==
    /\ req[r].pc = "idle"
    /\ \E h \in H : req' = [req EXCEPT ![r] = [@ EXCEPT !.pc = "arrived", !.headers = h]]
    /\ UNCHANGED <<config, clock, hist>>

\* Depends(validate_api_key): the handler runs only when it returns True
Authenticate(r) ==
    LET q == req[r]
        v == validate_api_key(q.headers.Authorization, q.headers.api_key,
                              q.headers.ocp_apim_subscription_key)
    IN  /\ q.pc = "arrived"
        /\ q.route \in GatedRoutes
        /\ req' = [req EXCEPT ![r] =
                     CASE v = "True" ->
                            [q EXCEPT !.pc = "authenticated", !.log = Append(@, "Authenticate")]
                       [] v = "HTTPException" ->
                            Returned(q, HTTP_401_UNAUTHORIZED, "HTTPException")
                       [] OTHER -> Returned(q, HTTP_500, "unhandled")]
        /\ UNCHANGED <<config, clock, hist>>

\* time passes
Tick ==
    /\ \E d \in ClockStepsMs :
          /\ clock < MaxClockSteps * d * TicksPerMs
          /\ clock' = clock + d * TicksPerMs
    /\ UNCHANGED <<config, req, hist>>

\* catchall up to its first await: start_time, the RequestContext, the producer's call
Start(r) ==
    LET q == req[r]
        q1 == [q EXCEPT !.start_time = clock, !.contexts = @ + 1]
        producer == Producer(config.simulator_mode)
    IN  /\ q.pc = "authenticated"
        /\ q.route = "catchall"
        /\ req' = [req EXCEPT ![r] =
                     IF producer = None THEN NoResponse(q1)
                     ELSE Advance([q1 EXCEPT !.invoked = Append(@, The(producer))], "Dispatch"),
                              ![ContextOf(r)].values = NoValues]
        /\ UNCHANGED <<config, clock, hist>>

\* the awaited producer finishes: a response, None, or an exception
ProducerReturns(r, O) ==
    LET q == req[r]
    IN  /\ q.pc = "dispatching"
        /\ \E o \in O :
              LET q1 == [q EXCEPT !.annotated = Some(o.values), !.outcome = Some(o.kind)]
              IN  req' = [req EXCEPT ![r] =
                            CASE o.kind = "raise" -> Except(q1, "Dispatch")
                              [] o.kind = "none" -> NoResponse(q1)
                              [] OTHER ->
                                   Advance([q1 EXCEPT
                                              !.produced = Some(o.status),
                                              !.response = Some([status_code |-> o.status,
                                                                 origin |-> "producer"])],
                                           "Response"),
                                     ![ContextOf(r)].values = o.values]
        /\ UNCHANGED <<config, clock, hist>>

\* the limiter stage: look the limiter up, call it, keep or replace the response
Limit(r) ==
    LET q == req[r]
    IN  /\ q.pc = "dispatched"
        /\ IF limiter(Values(r))
           THEN \E l \in LimiterResults :
                   LET q1 == [q EXCEPT !.limited = Append(@, The(Values(r).limiter)),
                                       !.verdict = Some(l)]
                   IN  req' = [req EXCEPT ![r] =
                                 IF l.kind = "raise" THEN Except(q1, "Limit")
                                 ELSE Advance([q1 EXCEPT !.response = ApplyLimit(@, l)], "Limit")]
           ELSE req' = [req EXCEPT ![r] = Advance(q, "Limit")]
        /\ UNCHANGED <<config, clock, hist>>

\* the latency stage: base_duration_s, and the sleep when there is latency to add
Latency(r) ==
    LET q == req[r]
        base_duration_s == clock - q.start_time
        added == AddedLatency(StatusOf(q), Values(r), base_duration_s)
        q1 == [q EXCEPT !.base_duration_s = base_duration_s, !.slept = added]
    IN  /\ q.pc = "limited"
        /\ req' = [req EXCEPT ![r] =
                     IF added # None
                     THEN Advance([q1 EXCEPT !.wake = clock + The(added)], "Sleep")
                     ELSE Advance(q1, "Delay")]
        /\ UNCHANGED <<config, clock, hist>>

\* asyncio.sleep returns, no sooner than the delay asked for
Wake(r) ==
    LET q == req[r]
    IN  /\ q.pc = "sleeping"
        /\ clock' = Max(clock, q.wake)
        /\ req' = [req EXCEPT ![r] = Advance(q, "Delay")]
        /\ UNCHANGED <<config, hist>>

\* asyncio.sleep raises
SleepRaises(r) ==
    LET q == req[r]
    IN  /\ q.pc = "sleeping"
        /\ req' = [req EXCEPT ![r] = Except(q, "Delay")]
        /\ UNCHANGED <<config, clock, hist>>

\* the metrics stage: the record calls in order; call k raising ends it (k = 0: none raises)
RecordMetrics(r) ==
    LET q == req[r]
        calls == MetricsCalls(StatusOf(q), Values(r))
        obs(name) == Observation(name, r, StatusOf(q), Values(r),
                                 q.base_duration_s, clock - q.start_time)
    IN  /\ q.pc = "delayed"
        /\ \E k \in 0..Len(calls) :
              LET done == IF k = 0 THEN Len(calls) ELSE k - 1
              IN  /\ hist' = [h \in DOMAIN hist |->
                                IF \E i \in 1..done : calls[i] = h
                                THEN Append(hist[h], obs(h))
                                ELSE hist[h]]
                  /\ req' = [req EXCEPT ![r] =
                               IF k = 0 THEN Advance(q, "Record") ELSE Except(q, "Record")]
        /\ UNCHANGED <<config, clock>>

\* return response
Return(r) ==
    LET q == req[r]
    IN  /\ q.pc = "recorded"
        /\ req' = [req EXCEPT ![r] = Returned(q, StatusOf(q), The(q.response).origin)]
        /\ UNCHANGED <<config, clock, hist>>

\* a request reaches one of the two fixed routes, / or /++/save-recordings
ArriveAt(r, route, H) ==
    /\ req[r].pc = "idle"
    /\ \E h \in H :
          req' = [req EXCEPT ![r] = [@ EXCEPT !.pc = "arrived", !.route = route, !.headers = h]]
    /\ UNCHANGED <<config, clock, hist>>

\* root: the liveness message, no dependency
Root(r) ==
    LET q == req[r]
    IN  /\ q.pc = "arrived"
        /\ q.route = "root"
        /\ req' = [req EXCEPT ![r] = Returned(q, 200, "root")]
        /\ UNCHANGED <<config, clock, hist>>

\* save_recordings: save in record mode and answer 200, else answer 400
SaveRecordings(r) ==
    LET q == req[r]
    IN  /\ q.pc = "authenticated"
        /\ q.route = "save-recordings"
        /\ req' = [req EXCEPT ![r] =
                     IF CanSave(config.simulator_mode)
                     THEN Returned([q EXCEPT !.invoked = Append(@, "save_recordings")],
                                   200, "save_recordings")
                     ELSE Returned(q, 400, "save_recordings")]
        /\ UNCHANGED <<config, clock, hist>>

Next ==
    \/ Tick
    \/ \E r \in DOMAIN req : Arrive(r, HeadersFew)
    \/ \E r \in DOMAIN req : Authenticate(r)
    \/ \E r \in DOMAIN req : Start(r)
    \/ \E r \in DOMAIN req : ProducerReturns(r, OutcomesAll)
    \/ \E r \in DOMAIN req : Limit(r)
    \/ \E r \in DOMAIN req : Latency(r)
    \/ \E r \in DOMAIN req : Wake(r)
    \/ \E r \in DOMAIN req : SleepRaises(r)
    \/ \E r \in DOMAIN req : RecordMetrics(r)
    \/ \E r \in DOMAIN req : Return(r)

Spec == Init /\ [][Next]_vars

\* the same pipeline with every combination of credential headers
NextAuth ==
    \/ Tick
    \/ \E r \in DOMAIN req : Arrive(r, HeadersAll)
    \/ \E r \in DOMAIN req : Authenticate(r)
    \/ \E r \in DOMAIN req : Start(r)
    \/ \E r \in DOMAIN req : ProducerReturns(r, OutcomesFew)
    \/ \E r \in DOMAIN req : Limit(r)
    \/ \E r \in DOMAIN req : Latency(r)
    \/ \E r \in DOMAIN req : Wake(r)
    \/ \E r \in DOMAIN req : SleepRaises(r)
    \/ \E r \in DOMAIN req : RecordMetrics(r)
    \/ \E r \in DOMAIN req : Return(r)

SpecAuth == Init /\ [][NextAuth]_vars

\* every route of the application, with every combination of credential headers
NextRoutes ==
    \/ NextAuth
    \/ \E r \in DOMAIN req : ArriveAt(r, "root", HeadersAll)
    \/ \E r \in DOMAIN req : ArriveAt(r, "save-recordings", HeadersAll)
    \/ \E r \in DOMAIN req : Root(r)
    \/ \E r \in DOMAIN req : SaveRecordings(r)

SpecRoutes == Init /\ [][NextRoutes]_vars

\* two requests in flight at once, interleaved at every step
InitConc == InitWith({"r1", "r2"})

NextConc ==
    \/ Tick
    \/ \E r \in DOMAIN req : Arrive(r, HeadersConc)
    \/ \E r \in DOMAIN req : Authenticate(r)
    \/ \E r \in DOMAIN req : Start(r)
    \/ \E r \in DOMAIN req : ProducerReturns(r, OutcomesConc)
    \/ \E r \in DOMAIN req : Limit(r)
    \/ \E r \in DOMAIN req : Latency(r)
    \/ \E r \in DOMAIN req : Wake(r)
    \/ \E r \in DOMAIN req : SleepRaises(r)
    \/ \E r \in DOMAIN req : RecordMetrics(r)
    \/ \E r \in DOMAIN req : Return(r)

SpecConc == InitConc /\ [][NextConc]_vars

\* what a producer may do to a chat-completion request
OutcomesLive ==
    Outcomes({200}, ValuesOf({<<Some("openai"), Some("gpt-4")>>}, {Some(7)}, {Some(500)}))

\* the next step of r's catchall coroutine, whichever it is: the event loop
\* resumes a coroutine whose awaited producer or sleep has completed or failed
Step(r) ==
    \/ Start(r)
    \/ ProducerReturns(r, OutcomesLive)
    \/ Limit(r)
    \/ Latency(r)
    \/ Wake(r)
    \/ SleepRaises(r)
    \/ RecordMetrics(r)
    \/ Return(r)

NextLive ==
    \/ Tick
    \/ \E r \in DOMAIN req : Arrive(r, HeadersConc)
    \/ \E r \in DOMAIN req : Authenticate(r)
    \/ \E r \in DOMAIN req : Start(r)
    \/ \E r \in DOMAIN req : ProducerReturns(r, OutcomesLive)
    \/ \E r \in DOMAIN req : Limit(r)
    \/ \E r \in DOMAIN req : Latency(r)
    \/ \E r \in DOMAIN req : Wake(r)
    \/ \E r \in DOMAIN req : SleepRaises(r)
    \/ \E r \in DOMAIN req : RecordMetrics(r)
    \/ \E r \in DOMAIN req : Return(r)

\* two requests in flight, every runnable coroutine eventually run
SpecLive ==
    /\ InitConc
    /\ [][NextLive]_vars
    /\ WF_vars(Step("r1"))
    /\ WF_vars(Step("r2"))

----------------------------------------------------------------------------
(* Properties *)

Reqs == DOMAIN req

\* the observations request r made on histogram h
Count(h, r) == Cardinality({i \in 1..Len(hist[h]) : hist[h][i].by = r})

Histograms == {"latency_base", "latency_full", "tokens_used", "tokens_requested"}

NoMetrics(r) == \A h \in Histograms : Count(h, r) = 0

\* validate_api_key has run for r
Gated(r) == req[r].pc \notin {"idle", "arrived"}

\* r was let through the gate
Authenticated(r) == req[r].log # <<>> /\ req[r].log[1] = "Authenticate"

\* a key carrier that is absent or differs from the configured secret
NotTheSecret(key) == key = None \/ The(key) # config.simulator_api_key

\* a key carrier that is present and equals the configured secret
IsTheSecret(key) == key # None /\ The(key) = config.simulator_api_key

\* r ended with the 401 and nothing of the pipeline ran for it
Rejected(r) ==
    /\ req[r].pc = "returned"
    /\ req[r].result = Some([status_code |-> HTTP_401_UNAUTHORIZED, origin |-> "HTTPException"])
    /\ req[r].contexts = 0
    /\ req[r].invoked = <<>>
    /\ req[r].limited = <<>>
    /\ NoMetrics(r)

\* C1 (as claimed): a request with no Authorization carrier whose api-key and
\* ocp-apim-subscription-key carriers are each absent or different from the
\* configured secret is rejected with 401, and no Context, producer call,
\* limiter call or histogram observation is made for it.
C1_RejectedWith401 ==
    \A r \in Reqs :
        (/\ Gated(r)
         /\ req[r].headers.Authorization = None
         /\ NotTheSecret(req[r].headers.api_key)
         /\ NotTheSecret(req[r].headers.ocp_apim_subscription_key))
            => Rejected(r)

\* C2: a request whose Authorization carrier holds any non-empty value passes
\* the gate, whatever that value is and whatever the api-key and
\* subscription-key carriers hold.
C2_BearerAlwaysAccepted ==
    \A r \in Reqs :
        (Gated(r) /\ StrTruthy(req[r].headers.Authorization))
            => (/\ Authenticated(r)
                /\ \A res \in req[r].result : res.origin \notin {"HTTPException", "unhandled"})

\* C2 witness: the gate let through a bearer value that is not the secret,
\* next to a wrong api-key and a subscription-key compare_digest would reject
C2_Witness ==
    \E r \in Reqs :
        /\ req[r].pc = "authenticated"
        /\ req[r].headers.Authorization = Some(BearerToken)
        /\ req[r].headers.api_key = Some(WrongKey)
        /\ req[r].headers.ocp_apim_subscription_key = Some(NonAsciiKey)

\* C3 (as claimed): a request whose api-key carrier equals the secret, or
\* whose subscription-key carrier equals the secret, passes the gate whatever
\* the other carriers hold.
C3_AnyOneCarrier ==
    \A r \in Reqs :
        (/\ Gated(r)
         /\ \/ IsTheSecret(req[r].headers.api_key)
            \/ IsTheSecret(req[r].headers.ocp_apim_subscription_key))
            => Authenticated(r)

\* the stages of a log, without the sleep's start and the return
IsStage(e) == e \notin {"Sleep", "Return"}

InLog(r, e) == \E i \in 1..Len(req[r].log) : req[r].log[i] = e

CanonicalOrder == <<"Authenticate", "Dispatch", "Response", "Limit", "Delay", "Record">>

\* the response r's caller got is the one the pipeline resolved
ReturnedResolved(r) ==
    /\ req[r].pc = "returned"
    /\ \E res \in req[r].result : res.origin \in {"producer", "limiter"}

\* C4: within one request the stages run in the order Authenticate, Dispatch,
\* Limit, Delay, Record-metrics, Return: the limiter is called only after the
\* producer yielded a response, the sleep starts only after the limiter stage,
\* metrics are recorded only after the latency stage, the resolved response is
\* returned only after the metrics, and nothing runs before the gate let the
\* request through.
C4_StageOrder ==
    \A r \in Reqs :
        LET log == req[r].log
            stages == SelectSeq(log, IsStage)
        IN  /\ Len(stages) <= Len(CanonicalOrder)
            /\ \A i \in 1..Len(stages) : stages[i] = CanonicalOrder[i]
            /\ \A i \in 1..Len(log) : log[i] = "Return" => i = Len(log)
            /\ \A i \in 1..Len(log) :
                  log[i] = "Sleep" => (i > 1 /\ log[i - 1] = "Limit")
            /\ (req[r].contexts > 0 \/ req[r].invoked # <<>>) => Authenticated(r)
            /\ req[r].limited # <<>> => (req[r].produced # None /\ InLog(r, "Response"))
            /\ req[r].slept # None => InLog(r, "Limit")
            /\ ~NoMetrics(r) => InLog(r, "Delay")
            /\ ReturnedResolved(r) => InLog(r, "Record")

\* C4 witness: a request that went through every stage, limiter call and sleep included
C4_Witness ==
    \E r \in Reqs :
        /\ req[r].log = <<"Authenticate", "Dispatch", "Response", "Limit", "Sleep", "Delay",
                          "Record", "Return">>
        /\ req[r].limited = <<"openai">>
        /\ Count("tokens_used", r) = 1

\* C5 (as claimed): every authenticated request that has returned made exactly
\* one observation on each latency histogram, whichever path it took.
C5_ExactlyOnceOnEveryPath ==
    \A r \in Reqs :
        (req[r].pc = "returned" /\ Authenticated(r))
            => (Count("latency_base", r) = 1 /\ Count("latency_full", r) = 1)

\* C5 (amended): no histogram gets more than one observation per request; a
\* request that returns its resolved response made exactly one observation on
\* each latency histogram; a request that ends with the 500 of a missing
\* response, or of an exception raised before the metrics stage, made none.
C5_OncePerResolvedResponse ==
    \A r \in Reqs :
        /\ \A h \in Histograms : Count(h, r) <= 1
        /\ ReturnedResolved(r)
              => (Count("latency_base", r) = 1 /\ Count("latency_full", r) = 1)
        /\ (/\ req[r].pc = "returned"
            /\ ~ReturnedResolved(r)
            /\ req[r].fault # Some("Record"))
              => NoMetrics(r)

\* C5 witness: one request returned its response with one observation on each
\* latency histogram
C5_Witness ==
    \E r \in Reqs :
        /\ ReturnedResolved(r)
        /\ Count("latency_base", r) = 1
        /\ Count("latency_full", r) = 1
        /\ The(req[r].result).origin = "limiter"

\* C6: when the producer yields no response the request ends at once with a
\* 500: no limiter call, no sleep, no observation on any histogram, and no
\* exception reaches the caller.
C6_DispatchFault ==
    \A r \in Reqs :
        req[r].outcome = Some("none")
            => (/\ req[r].pc = "returned"
                /\ req[r].result = Some([status_code |-> HTTP_500, origin |-> "no-response"])
                /\ req[r].fault = None
                /\ req[r].limited = <<>>
                /\ req[r].slept = None
                /\ ~InLog(r, "Limit")
                /\ ~InLog(r, "Sleep")
                /\ NoMetrics(r))

\* C6 witness: in replay mode the handler found nothing, though it had
\* annotated a limiter, a token count and a duration
C6_Witness ==
    \E r \in Reqs :
        /\ config.simulator_mode = "replay"
        /\ req[r].outcome = Some("none")
        /\ req[r].values.limiter = Some("openai")
        /\ req[r].values.tokens = Some(7)
        /\ req[r].values.duration_ms = Some(500)

\* C7: an exception raised by the producer, the limiter, the sleep or a
\* record call is caught by catchall and answered with a 500; once the
\* Context exists no exception reaches the caller.
C7_FaultsBecome500 ==
    \A r \in Reqs :
        /\ req[r].fault # None
              => (/\ req[r].pc = "returned"
                  /\ req[r].result = Some([status_code |-> HTTP_500, origin |-> "except"]))
        /\ req[r].contexts > 0
              => \A res \in req[r].result : res.origin # "unhandled"

\* C7 witness: the third record call raised after two observations were made
C7_Witness ==
    \E r \in Reqs :
        /\ req[r].fault = Some("Record")
        /\ Count("latency_full", r) = 1
        /\ Count("tokens_requested", r) = 0
        /\ req[r].values.tokens = Some(7)

\* the latency stage of r has decided whether to sleep
LatencyDecided(r) == InLog(r, "Sleep") \/ InLog(r, "Delay")

\* the recorded-duration hint in ticks (0 when absent)
TargetTicks(r) == GetOr(req[r].values.duration_ms, 0) * TicksPerMs

\* C8: for a response whose post-limiter status is < 300, with target the
\* hint in seconds (0 when absent) and elapsed the time from start_time to
\* the limiter's resolution: the request sleeps exactly target - elapsed when
\* that is > 0, and its full duration is then >= the hint; otherwise it does
\* not sleep.
C8_SleepsTheRemainder ==
    \A r \in Reqs :
        (LatencyDecided(r) /\ StatusOf(req[r]) < SuccessBound)
            => LET target == TargetTicks(r)
                   elapsed == req[r].base_duration_s
               IN  /\ target - elapsed > 0 => req[r].slept = Some(target - elapsed)
                   /\ target - elapsed <= 0 => (req[r].slept = None /\ ~InLog(r, "Sleep"))
                   /\ \A i \in 1..Len(hist.latency_base) :
                         hist.latency_base[i].by = r => hist.latency_base[i].value = elapsed
                   /\ \A i \in 1..Len(hist.latency_full) :
                         hist.latency_full[i].by = r
                            => /\ hist.latency_full[i].value >= target
                               /\ hist.latency_full[i].value >= elapsed

\* C8 witness: hint 500 ms, 50 ms elapsed, 450 ms slept, and the full
\* duration observed is the 500 ms
C8_Witness ==
    \E r \in Reqs :
        /\ req[r].values.duration_ms = Some(500)
        /\ req[r].base_duration_s = 50 * TicksPerMs
        /\ req[r].slept = Some(450 * TicksPerMs)
        /\ \E i \in 1..Len(hist.latency_full) :
              hist.latency_full[i].by = r /\ hist.latency_full[i].value = 500 * TicksPerMs

\* C9: a response whose post-limiter status is >= 300 is never delayed, a
\* limiter's replacement of a successful response included, even when the
\* hint is larger than the elapsed time.
C9_NoDelayForFailures ==
    \A r \in Reqs :
        (LatencyDecided(r) /\ StatusOf(req[r]) >= SuccessBound)
            => (req[r].slept = None /\ ~InLog(r, "Sleep") /\ req[r].wake = 0)

\* C9 witness: the limiter replaced a 200 that had a 500 ms hint, nothing elapsed
C9_Witness ==
    \E r \in Reqs :
        /\ req[r].pc = "delayed"
        /\ req[r].produced = Some(200)
        /\ The(req[r].response).origin = "limiter"
        /\ req[r].values.duration_ms = Some(500)
        /\ req[r].base_duration_s = 0

\* the metrics stage of r ran to its end
MetricsRecorded(r) == InLog(r, "Record") /\ req[r].fault = None

\* C10 (as claimed): for a request whose metrics stage ran, tokens_used is
\* observed iff a token count is present and the final status is < 300, and
\* tokens_requested is observed whenever a token count is present, 0 included.
C10_TokenHistograms ==
    \A r \in Reqs :
        MetricsRecorded(r)
            => (/\ Count("tokens_used", r) = 1
                     <=> (req[r].values.tokens # None /\ StatusOf(req[r]) < SuccessBound)
                /\ req[r].values.tokens # None => Count("tokens_requested", r) = 1)

\* the limiter stage of r resolved without raising
LimitResolved(r) == InLog(r, "Limit")

\* the response r's producer returned
ProducedResponse(r) == Some([status_code |-> The(req[r].produced), origin |-> "producer"])

\* the replacement r's limiter returned, None when it returned none
Replacement(r) ==
    IF \E l \in req[r].verdict : l.kind = "replace"
    THEN Some([status_code |-> The(req[r].verdict).status, origin |-> "limiter"])
    ELSE None

\* C11: the limiter stage replaces or passes: with no limiter key, or a key
\* that is not registered, the producer's response goes on unchanged and
\* nothing is raised; when the limiter returns nothing the producer's
\* response is kept; when it returns a replacement, that is the response of
\* every later stage; the response returned without a fault is one of the two.
C11_ReplaceOrPass ==
    \A r \in Reqs :
        /\ (/\ LimitResolved(r)
            /\ (req[r].values.limiter = None \/ The(req[r].values.limiter) \notin limiters))
              => (/\ req[r].limited = <<>>
                  /\ req[r].verdict = None
                  /\ req[r].response = ProducedResponse(r)
                  /\ req[r].fault # Some("Limit"))
        /\ (LimitResolved(r) /\ req[r].verdict # None /\ Replacement(r) = None)
              => req[r].response = ProducedResponse(r)
        /\ (LimitResolved(r) /\ Replacement(r) # None)
              => req[r].response = Replacement(r)
        /\ ReturnedResolved(r)
              => (/\ req[r].result = req[r].response
                  /\ req[r].result \in {ProducedResponse(r), Replacement(r)} \ {None})

\* C11 witness: a request returned the limiter's 429 in place of the producer's 200
C11_Witness ==
    \E r \in Reqs :
        /\ ReturnedResolved(r)
        /\ req[r].produced = Some(200)
        /\ req[r].result = Some([status_code |-> 429, origin |-> "limiter"])

\* C12: when the limiter replaces the response, it does so before the sleep
\* and the metrics; the caller receives the replacement; the base and full
\* latency observations carry the replacement's status code, not the
\* producer's; and with a replacement status >= 300 the request is not
\* delayed and makes no observation on tokens_used.
C12_AdmissionDenied ==
    \A r \in Reqs :
        (LimitResolved(r) /\ Replacement(r) # None)
            => LET final == The(Replacement(r)).status_code
                   log == req[r].log
               IN  /\ \A i, j \in 1..Len(log) :
                         (log[i] = "Limit" /\ log[j] \in {"Sleep", "Delay", "Record"}) => i < j
                   /\ ReturnedResolved(r) => req[r].result = Replacement(r)
                   /\ \A h \in {"latency_base", "latency_full"} :
                         \A i \in 1..Len(hist[h]) :
                            hist[h][i].by = r => hist[h][i].status_code = Some(final)
                   /\ MetricsRecorded(r)
                         => (Count("latency_base", r) = 1 /\ Count("latency_full", r) = 1)
                   /\ final >= SuccessBound
                         => (req[r].slept = None /\ Count("tokens_used", r) = 0)

\* C12 witness: a 200 with 7 tokens and a 500 ms hint was replaced by a 429:
\* both latency observations carry 429, the tokens count as requested only
C12_Witness ==
    \E r \in Reqs :
        /\ ReturnedResolved(r)
        /\ req[r].produced = Some(200)
        /\ req[r].values.tokens = Some(7)
        /\ req[r].values.duration_ms = Some(500)
        /\ Replacement(r) = Some([status_code |-> 429, origin |-> "limiter"])
        /\ \E i \in 1..Len(hist.latency_full) :
              hist.latency_full[i].by = r /\ hist.latency_full[i].status_code = Some(429)
        /\ Count("tokens_requested", r) = 1
        /\ Count("tokens_used", r) = 0

\* C13 (as claimed): when a histogram record call raises, the caller still
\* receives the response the earlier stages resolved.
C13_RecordFailureKeepsResponse ==
    \A r \in Reqs :
        (req[r].pc = "returned" /\ req[r].fault = Some("Record"))
            => req[r].result = req[r].response

\* C14: an authenticated save-recordings call saves and answers 200 in record
\* mode; in generate and replay mode it saves nothing, touches no
\* collaborator and answers 400.
C14_SaveOnlyInRecordMode ==
    \A r \in Reqs :
        (req[r].route = "save-recordings" /\ req[r].pc = "returned" /\ Authenticated(r))
            => /\ config.simulator_mode = "record"
                    => (/\ req[r].invoked = <<"save_recordings">>
                        /\ req[r].result = Some([status_code |-> 200,
                                                 origin |-> "save_recordings"]))
               /\ config.simulator_mode # "record"
                    => (/\ req[r].invoked = <<>>
                        /\ req[r].result = Some([status_code |-> 400,
                                                 origin |-> "save_recordings"]))
               /\ req[r].contexts = 0
               /\ NoMetrics(r)

\* C14 witness: in replay mode, where the handler exists, the call with the
\* right key is answered 400 and nothing is saved
C14_Witness ==
    \E r \in Reqs :
        /\ config.simulator_mode = "replay"
        /\ req[r].route = "save-recordings"
        /\ req[r].headers.api_key = Some(Secret)
        /\ req[r].result = Some([status_code |-> 400, origin |-> "save_recordings"])

\* a route handler of the application ran for r
HandlerRan(r) ==
    \/ req[r].contexts > 0
    \/ req[r].invoked # <<>>
    \/ \E res \in req[r].result : res.origin \notin {"HTTPException", "unhandled"}

\* the credentials validate_api_key accepts
Acceptable(headers) ==
    \/ StrTruthy(headers.Authorization)
    \/ IsTheSecret(headers.api_key)
    \/ IsTheSecret(headers.ocp_apim_subscription_key)

\* C16 (as claimed): on every endpoint, the liveness probe included, the
\* handler produces a response only after the credential gate let the request
\* through.
C16_GateOnEveryEndpoint ==
    \A r \in Reqs : HandlerRan(r) => Authenticated(r)

\* C16 (amended): on the catch-all route and on save-recordings the handler
\* runs only after validate_api_key accepted the request's credentials; the
\* liveness probe GET / answers 200 without the gate, whatever the headers.
C16_GateOnGatedRoutes ==
    \A r \in Reqs :
        /\ (req[r].route \in {"catchall", "save-recordings"} /\ HandlerRan(r))
              => (Authenticated(r) /\ Acceptable(req[r].headers))
        /\ (req[r].route = "root" /\ req[r].pc = "returned")
              => (/\ req[r].result = Some([status_code |-> 200, origin |-> "root"])
                  /\ ~Authenticated(r))

\* C16 witness: save-recordings ran for a request let through on its
\* subscription key, next to a wrong api-key
C16_Witness ==
    \E r \in Reqs :
        /\ req[r].route = "save-recordings"
        /\ req[r].headers.Authorization = None
        /\ req[r].headers.api_key = Some(WrongKey)
        /\ req[r].headers.ocp_apim_subscription_key = Some(Secret)
        /\ HandlerRan(r)

\* the producer of r's catch-all call has been invoked
Dispatched(r) == req[r].route = "catchall" /\ InLog(r, "Dispatch")

\* the one collaborator r invoked is the one the mode selects
InvokedByMode(r) ==
    /\ config.simulator_mode = "generate" => req[r].invoked = <<"invoke_generators">>
    /\ config.simulator_mode \in {"record", "replay"}
          => req[r].invoked = <<"record_replay_handler">>
    /\ config.simulator_mode \in Modes

\* C15: every authenticated catch-all request invokes exactly one of the
\* generators and the record/replay handler, once, the one its mode selects
\* (none before it starts), and the mode never changes while the process runs.
C15_OneProducerByMode ==
    /\ [](\A r \in Reqs :
             /\ Dispatched(r) => InvokedByMode(r)
             /\ ~Dispatched(r) => req[r].invoked = <<>>
             /\ (req[r].pc = "returned" /\ Authenticated(r)) => Dispatched(r))
    /\ [][config' = config]_vars

\* C15 witness: in replay mode two requests have each called the handler once
C15_Witness ==
    /\ config.simulator_mode = "replay"
    /\ \A r \in Reqs : req[r].invoked = <<"record_replay_handler">>
    /\ Cardinality(Reqs) = 2
    /\ \E r \in Reqs : req[r].pc = "dispatching"
    /\ \E r \in Reqs : req[r].pc = "returned"

\* r has been answered: with its resolved response after the whole pipeline,
\* or with a 500 error response
Answered(r) ==
    /\ req[r].pc = "returned"
    /\ req[r].result # None
    /\ \/ The(req[r].result).status_code = HTTP_500
       \/ /\ InLog(r, "Record")
          /\ The(req[r].result) = The(req[r].response)

\* C17: when every runnable catch-all coroutine is eventually run, a request
\* that passed authentication is eventually returned, with its resolved
\* response or with a 500 error response.
C17_NoRequestLeftPending ==
    /\ Authenticated("r1") ~> Answered("r1")
    /\ Authenticated("r2") ~> Answered("r2")

\* C17 witness: both authenticated requests are answered, one after its sleep
\* failed and the other with a resolved response after sleeping
C17_Witness ==
    /\ Authenticated("r1") /\ Answered("r1")
    /\ Authenticated("r2") /\ Answered("r2")
    /\ \E r \in Reqs : req[r].fault = Some("Delay")
    /\ \E r \in Reqs : InLog(r, "Sleep") /\ InLog(r, "Record")
                       /\ The(req[r].result).status_code # HTTP_500

\* what the producer annotated while serving r
Annotated(r) == The(req[r].annotated)

\* the observations request r made on histogram h
ObservationsBy(h, r) == {i \in 1..Len(hist[h]) : hist[h][i].by = r}

\* C18: each catch-all request has one Context of its own, empty until its
\* producer annotates it; under every interleaving of two requests, the limiter
\* a request calls, the latency it adds and the deployment and token count of
\* its observations are those its own producer annotated.
C18_OwnContext ==
    \A r \in Reqs :
        LET q == req[r]
        IN  /\ q.contexts = (IF Dispatched(r) THEN 1 ELSE 0)
            /\ q.annotated = None => (q.limited = <<>> /\ \A h \in Histograms : Count(h, r) = 0)
            /\ q.limited # <<>> => q.limited = <<The(Annotated(r).limiter)>>
            /\ (LimitResolved(r) /\ limiter(Annotated(r))) => q.limited # <<>>
            /\ LatencyDecided(r)
                  => q.slept = AddedLatency(StatusOf(q), Annotated(r), q.base_duration_s)
            /\ \A h \in Histograms : \A i \in ObservationsBy(h, r) :
                  /\ hist[h][i].deployment = Annotated(r).deployment
                  /\ h \in {"tokens_requested", "tokens_used"}
                        => hist[h][i].value = The(Annotated(r).tokens)
            /\ InLog(r, "Record")
                  => Count("tokens_requested", r) = (IF IntTruthy(Annotated(r).tokens) THEN 1 ELSE 0)

\* C18 witness: r2 started after r1, was limited on its own key and recorded
\* its metrics while r1, annotated otherwise, is still in its latency sleep
C18_Witness ==
    /\ req["r1"].pc = "sleeping"
    /\ req["r1"].limited = <<"openai">>
    /\ req["r2"].start_time > req["r1"].start_time
    /\ req["r2"].limited = <<"docintelligence">>
    /\ req["r2"].pc = "returned"
    /\ Count("latency_full", "r2") = 1
    /\ Annotated("r1") # Annotated("r2")

\* the limiter stage of r is over: the response went on, or the limiter raised
LimitStageOver(r) == LimitResolved(r) \/ req[r].fault = Some("Limit")

\* the producer annotated r with a non-empty limiter key that is registered
RegisteredKey(r) ==
    /\ req[r].annotated # None
    /\ Annotated(r).limiter # None
    /\ The(Annotated(r).limiter) \in {"openai", "docintelligence"}

\* C19: a request invokes a limiter at most once, only for a produced response
\* annotated with a non-empty registered key, and then always does, whatever
\* the status of the produced response, >= 300 included.
C19_LimiterInvocation ==
    \A r \in Reqs :
        LET q == req[r]
        IN  /\ Len(q.limited) <= 1
            /\ q.limited # <<>>
                  => /\ RegisteredKey(r)
                     /\ The(Annotated(r).limiter) # ""
                     /\ q.limited = <<The(Annotated(r).limiter)>>
                     /\ q.produced # None
                     /\ q.verdict # None
            /\ (LimitStageOver(r) /\ RegisteredKey(r)) => Len(q.limited) = 1
            /\ (q.produced # None /\ RegisteredKey(r) /\ q.pc # "dispatched")
                  => Len(q.limited) = 1

\* C19 witness: a produced 404 was handed to the openai limiter, which let it
\* pass, and the request was answered 404
C19_Witness ==
    \E r \in Reqs :
        /\ req[r].produced = Some(404)
        /\ req[r].limited = <<"openai">>
        /\ req[r].verdict = Some([kind |-> "none", status |-> 0])
        /\ req[r].pc = "returned"
        /\ The(req[r].result).status_code = 404

====
